---- MODULE Spec2Model ----
(***************************************************************************)
(* Model of the Infinite-Transactions AMM simulator: the per-token pool    *)
(* (Token class), the USD price resolver with its one-second cache, the    *)
(* router (findAllPaths / calculatePathOutput / findBestPath /             *)
(* executeRoute) and the asynchronous processBuy transaction chain.        *)
(*                                                                         *)
(* Decimal values are integers of the model's unit.  plus, minus and times *)
(* are exact; dividedBy is integer division (DecDiv), applied once, to the *)
(* quotient the code computes.  Comparisons of quotients are made exactly, *)
(* by cross-multiplication.  Prices (ratios) are fixed-point numbers with  *)
(* PriceScale units per 1.0.                                               *)
(***************************************************************************)
EXTENDS Integers, Sequences, FiniteSets, TLC

VARIABLES
    tokens,                     \* state.tokens: token id -> Token fields
    plsPrice,                   \* state.plsPrice
    applySlippage,              \* state.applySlippage
    requireGas,                 \* state.requireGas
    requireRoutingConfirmation, \* state.requireRoutingConfirmation
    isPaused,                   \* state.isPaused
    now,                        \* Date.now(), milliseconds
    tasks,                      \* the suspended processBuy calls (await points)
    transactionCount,           \* state.transactionCount
    totalProcessed,             \* state.totalProcessed
    totalGasUsed,               \* state.totalGasUsed
    wallets,                    \* state.wallets: wallet id -> Wallet fields
    strategy,                   \* activeStrategy, strategyStats, strategyInterval and its timers
    budget,                     \* user operations still allowed in this run
    last                        \* what the step just taken did and reported

vars == <<tokens, plsPrice, applySlippage, requireGas, requireRoutingConfirmation,
          isPaused, now, tasks, transactionCount, totalProcessed, totalGasUsed,
          wallets, strategy, budget, last>>

-----------------------------------------------------------------------------
(* Bounds of the model *)

NumTokens == 3          \* tokens created with the "Add Token" button
MaxBudget == 5          \* user operations in one run of the liquidity and swap specifications
PriceOps == 4           \* user operations in one run of the price specification
PoolOps == 2            \* user operations in one run of the pool specification
MaxTicks == 2           \* clock advances in one run
InitialSupply == 1000   \* Token.totalSupply at construction, in model units
InitialPls == 500       \* Token.plsBalance at construction, in model units
Million == 1000          \* 1,000,000 USD or PLS, in the model's unit
MaxWallets == 2         \* wallets created in one run
ChainOps == 2           \* buys started in one run of the chain specification
\* transactions counted in one run: one more than chains that end can count
MaxChainSteps == ChainOps * NumTokens + 1
StrategyOps == 4        \* clicks on the start and stop buttons in one run
MaxStrategyTrades == 3  \* trades counted by one strategy in one run
MaxTx == 2              \* processBuy calls that may be started in one run
NumTasks == 2           \* processBuy calls that may be suspended at once

TokenIds == 1..NumTokens
NoToken == 0            \* null: no paired / opposite token selected
NoWallet == 0           \* null: no wallet selected
Infinity == -1          \* the number Infinity, which no depth or trade count equals
TaskIds == 1..NumTasks


-----------------------------------------------------------------------------
(* Program constants *)

PriceScale == 1000      \* fixed-point unit of a price
CacheTtl == 1000        \* price cache lifetime, ms
FeeNum == 997           \* 1 - 0.003, numerator
FeeDen == 1000          \* 1 - 0.003, denominator
StartTime == 1000       \* Date.now() at start: any cache stamped 0 is stale
TickMs == 500           \* granularity of the clock

-----------------------------------------------------------------------------
(* Decimal helpers *)

DecDiv(a, b) == a \div b

Abs(a) == IF a < 0 THEN 0 - a ELSE a

RECURSIVE SqrtBetween(_, _, _)
SqrtBetween(n, lo, hi) ==
    IF lo >= hi THEN lo
    ELSE LET mid == (lo + hi + 1) \div 2
         IN IF mid * mid <= n THEN SqrtBetween(n, mid, hi)
            ELSE SqrtBetween(n, lo, mid - 1)

\* Decimal.sqrt, rounded down to the model's unit (n < 2^30)
DecSqrt(n) == SqrtBetween(n, 0, 32767)

-----------------------------------------------------------------------------
(* Token *)

\* new Token({ id }): the fields the constructor sets
NewToken(id) ==
    [ pairType |-> "USD", pairedTokenId |-> NoToken,
      tokenReserve |-> 0, pairReserve |-> 0, k |-> 0, lpTotalSupply |-> 0,
      totalSupply |-> InitialSupply, plsBalance |-> InitialPls,
      cachedUSDPrice |-> 0, priceLastUpdated |-> 0,
      selectedOppositeToken |-> NoToken, oppositeTokenPercentage |-> 0,
      plsPercentage |-> 0, amountProcessed |-> 0 ]

\* state.tokens.find(t => t.id === id) found something
TokenExists(id) == id \in TokenIds

\* value returned by calculateTokenPriceUSD when the token id is already in
\* the visited set
CircularPrice_NonZero == PriceScale
CircularPrice == 0

\* the cache test of calculateTokenPriceUSD
CacheFresh(tok, t) == t - tok.priceLastUpdated < CacheTtl /\ tok.cachedUSDPrice # 0

\* Token.calculateTokenPriceUSD(visited) at time t on the token table toks,
\* with state.plsPrice = pls.
\* The method returns a price and writes the caches of the tokens it walks
\* and the visited set it was handed: all three are returned.
RECURSIVE PriceAt(_, _, _, _, _)
PriceAt(toks, id, visited, t, pls) ==
    LET self == toks[id] IN
    IF id \in visited
    THEN [price |-> CircularPrice, toks |-> toks, visited |-> visited]
    ELSE
      LET v1 == visited \cup {id} IN
      IF CacheFresh(self, t)
      THEN [price |-> self.cachedUSDPrice, toks |-> toks, visited |-> v1]
      ELSE IF self.pairReserve = 0 \/ self.tokenReserve = 0
      THEN [price |-> 0,
            toks |-> [toks EXCEPT ![id].cachedUSDPrice = 0, ![id].priceLastUpdated = t],
            visited |-> v1]
      ELSE
        LET priceInPairAsset == DecDiv(self.pairReserve * PriceScale, self.tokenReserve)
            recurse == self.pairType = "TOKEN" /\ TokenExists(self.pairedTokenId)
            sub == IF recurse
                   THEN PriceAt(toks, self.pairedTokenId, v1, t, pls)
                   ELSE [price |-> 0, toks |-> toks, visited |-> v1]
            usdPrice == IF self.pairType = "USD" THEN priceInPairAsset
                        ELSE IF self.pairType = "WPLS" THEN priceInPairAsset * pls
                        ELSE IF ~recurse THEN 0
                        ELSE DecDiv(priceInPairAsset * sub.price, PriceScale)
        IN [price |-> usdPrice,
            toks |-> [sub.toks EXCEPT ![id].cachedUSDPrice = usdPrice,
                                      ![id].priceLastUpdated = t],
            visited |-> sub.visited]

\* Token.calculateTokenPriceUSD(visited) under the current state.plsPrice
calculateTokenPriceUSD(toks, id, visited, t) == PriceAt(toks, id, visited, t, plsPrice)

\* token.calculateTokenPriceUSD() with a new visited set: the token table after it
PriceCall(toks, id, t) == calculateTokenPriceUSD(toks, id, {}, t).toks

\* Token.updateLiquidityDisplay: the DOM writes are not modelled; its two
\* calculateTokenPriceUSD() calls write the price caches
updateLiquidityDisplay(toks, id, t) == PriceCall(PriceCall(toks, id, t), id, t)

\* Token.updateDisplay ends with updateLiquidityDisplay
updateDisplay(toks, id, t) == updateLiquidityDisplay(toks, id, t)

\* Token.getTokensLockedInOtherPools
RECURSIVE SumLocked(_, _, _)
SumLocked(toks, id, ids) ==
    IF ids = {} THEN 0
    ELSE LET o == CHOOSE x \in ids : TRUE
             rest == SumLocked(toks, id, ids \ {o})
         IN IF o # id /\ toks[o].pairType = "TOKEN" /\ toks[o].pairedTokenId = id
            THEN toks[o].pairReserve + rest
            ELSE rest

getTokensLockedInOtherPools(toks, id) == SumLocked(toks, id, TokenIds)

\* Token.getAvailableSupply
getAvailableSupply(toks, id) ==
    toks[id].totalSupply - toks[id].tokenReserve - getTokensLockedInOtherPools(toks, id)

\* the supply test addLiquidity makes on its own token
OwnSupplyAvailable(toks, id) == toks[id].totalSupply - toks[id].tokenReserve

\* a ratio test that lets every deposit through
RatioMismatch_Never(tok, tokenToAdd, pairToAdd) == FALSE

\* the ratio test of addLiquidity on a funded pool:
\* |currentRatio - providedRatio| / currentRatio > 0.001
RatioMismatch(tok, tokenToAdd, pairToAdd) ==
    Abs(tok.pairReserve * tokenToAdd - pairToAdd * tok.tokenReserve) * 1000
        > tok.pairReserve * tokenToAdd

\* Token.addLiquidity(tokenAmount, pairAmount): the returned boolean and the
\* token table after the call
addLiquidity(toks, id, tokenToAdd, pairToAdd, t) ==
    LET self == toks[id]
        isInitialLiquidity == self.pairReserve = 0 /\ self.tokenReserve = 0
        reject == [ok |-> FALSE, toks |-> toks]
    IN
    IF tokenToAdd <= 0 \/ pairToAdd <= 0 THEN reject
    ELSE IF tokenToAdd > OwnSupplyAvailable(toks, id) THEN reject
    ELSE IF ~isInitialLiquidity /\ RatioMismatch(self, tokenToAdd, pairToAdd) THEN reject
    ELSE IF self.pairType = "WPLS" /\ pairToAdd > self.plsBalance THEN reject
    ELSE IF self.pairType = "TOKEN" /\ ~TokenExists(self.pairedTokenId) THEN reject
    ELSE IF self.pairType = "TOKEN"
            /\ pairToAdd > getAvailableSupply(toks, self.pairedTokenId) THEN reject
    ELSE
      LET lpTokensToMint ==
              IF isInitialLiquidity THEN DecSqrt(tokenToAdd * pairToAdd)
              ELSE DecDiv(self.lpTotalSupply * tokenToAdd, self.tokenReserve)
          newToken == self.tokenReserve + tokenToAdd
          newPair == self.pairReserve + pairToAdd
          t1 == [toks EXCEPT
                   ![id].plsBalance = IF self.pairType = "WPLS"
                                      THEN self.plsBalance - pairToAdd
                                      ELSE self.plsBalance,
                   ![id].tokenReserve = newToken,
                   ![id].pairReserve = newPair,
                   ![id].lpTotalSupply = self.lpTotalSupply + lpTokensToMint,
                   ![id].k = newToken * newPair]
          t2 == updateLiquidityDisplay(updateDisplay(t1, id, t), id, t)
          t3 == [t2 EXCEPT ![id].priceLastUpdated = 0]
      IN [ok |-> TRUE, toks |-> PriceCall(t3, id, t)]

\* Token.calculateSwapOutput(inputAmount, inputReserve, outputReserve), fee 0.3%
calculateSwapOutput(inputAmount, inputReserve, outputReserve) ==
    DecDiv(outputReserve * inputAmount * FeeNum,
           inputReserve * FeeDen + inputAmount * FeeNum)

\* an ideal mode that pays the constant-product output
IdealOutput_Curve(amountIn, pairReserve, tokenReserve) ==
    DecDiv(tokenReserve * amountIn * FeeNum, pairReserve * FeeDen + amountIn * FeeNum)

\* the ideal-mode output of executeBuy: amountIn / (pairReserve / tokenReserve)
IdealOutput(amountIn, pairReserve, tokenReserve) ==
    DecDiv(amountIn * tokenReserve, pairReserve)

\* Token.executeBuy(pairAmountIn): success, tokensReceived and the token
\* table after the call
executeBuy(toks, id, amountIn, t) ==
    LET self == toks[id]
        fail == [success |-> FALSE, tokensReceived |-> 0, toks |-> toks]
    IN
    IF amountIn <= 0 THEN fail
    ELSE IF self.pairReserve = 0 \/ self.tokenReserve = 0 THEN fail
    ELSE
      LET tokenOut == IF applySlippage
                      THEN calculateSwapOutput(amountIn, self.pairReserve, self.tokenReserve)
                      ELSE IdealOutput(amountIn, self.pairReserve, self.tokenReserve)
      IN
      IF tokenOut >= self.tokenReserve THEN fail
      ELSE
        LET newPair == self.pairReserve + amountIn
            newToken == self.tokenReserve - tokenOut
            t1 == [toks EXCEPT ![id].pairReserve = newPair,
                               ![id].tokenReserve = newToken,
                               ![id].k = newToken * newPair,
                               ![id].priceLastUpdated = 0]
            t2 == updateLiquidityDisplay(updateDisplay(t1, id, t), id, t)
        IN [success |-> TRUE, tokensReceived |-> tokenOut, toks |-> PriceCall(t2, id, t)]

\* Token.updateTotalSupply(newSupply)
updateTotalSupply(toks, id, supply, t) ==
    IF supply < toks[id].tokenReserve
    THEN [ok |-> FALSE, toks |-> toks]
    ELSE [ok |-> TRUE,
          toks |-> updateLiquidityDisplay([toks EXCEPT ![id].totalSupply = supply], id, t)]

-----------------------------------------------------------------------------
(* state.js: updateAllTokenPrices *)

MaxIterations == 10     \* let maxIterations = 10

\* first pass: calculateTokenPriceUSD(visited) on every WPLS-paired token, in
\* the order of state.tokens, all calls sharing one visited set
RECURSIVE WplsPass(_, _, _)
WplsPass(st, i, t) ==
    IF i > NumTokens THEN st
    ELSE IF st.toks[i].pairType = "WPLS"
    THEN LET r == calculateTokenPriceUSD(st.toks, i, st.visited, t)
         IN WplsPass([toks |-> r.toks, visited |-> r.visited], i + 1, t)
    ELSE WplsPass(st, i + 1, t)

\* the price change test of the loop: more than 0.01% of the old price
PriceChanged(oldPrice, newPrice) ==
    IF oldPrice # 0 THEN Abs(newPrice - oldPrice) * 10000 > oldPrice
    ELSE newPrice # 0

\* one pass of the loop body over the TOKEN-paired tokens
RECURSIVE TokenPass(_, _, _)
TokenPass(st, i, t) ==
    IF i > NumTokens THEN st
    ELSE IF st.toks[i].pairType = "TOKEN"
    THEN LET oldPrice == st.toks[i].cachedUSDPrice
             r == calculateTokenPriceUSD(st.toks, i, st.visited, t)
         IN TokenPass([toks |-> r.toks, visited |-> r.visited,
                       updated |-> st.updated
                                   \/ PriceChanged(oldPrice, r.toks[i].cachedUSDPrice)],
                      i + 1, t)
    ELSE TokenPass(st, i + 1, t)

\* while (updated && iteration < maxIterations)
RECURSIVE PriceLoop(_, _, _, _)
PriceLoop(st, updated, iteration, t) ==
    IF updated /\ iteration < MaxIterations
    THEN LET r == TokenPass([toks |-> st.toks, visited |-> st.visited,
                             updated |-> FALSE], 1, t)
         IN PriceLoop([toks |-> r.toks, visited |-> r.visited], r.updated,
                      iteration + 1, t)
    ELSE [toks |-> st.toks, iteration |-> iteration]

\* updateAllTokenPrices(): the token table after it and the passes it made
updateAllTokenPrices(toks, t) ==
    PriceLoop(WplsPass([toks |-> toks, visited |-> {}], 1, t), TRUE, 0, t)

-----------------------------------------------------------------------------
(* routing.js *)

MaxRoutingHops == 3     \* state.maxRoutingHops

NoRoute == [hops |-> <<>>, totalAmountOut |-> 0]    \* null

\* the path left in search order, target first
Reverse_Kept(seq) == seq

Reverse(seq) == [i \in 1..Len(seq) |-> seq[Len(seq) + 1 - i]]

InPath(path, id) == \E i \in 1..Len(path) : path[i] = id

\* the while loop of findAllPaths over the queue of reversed paths
RECURSIVE SearchPaths(_, _, _, _)
SearchPaths(toks, queue, paths, maxDepth) ==
    IF queue = <<>> THEN paths
    ELSE
      LET currentPath == Head(queue)
          rest == Tail(queue)
          currentToken == toks[currentPath[Len(currentPath)]]
          paired == currentToken.pairedTokenId
      IN
      IF currentToken.pairType \in {"USD", "WPLS"}
      THEN SearchPaths(toks, rest, Append(paths, Reverse(currentPath)), maxDepth)
      ELSE IF Len(currentPath) >= maxDepth
      THEN SearchPaths(toks, rest, paths, maxDepth)
      ELSE IF currentToken.pairType = "TOKEN" /\ paired # NoToken
              /\ TokenExists(paired) /\ ~InPath(currentPath, paired)
      THEN SearchPaths(toks, Append(rest, Append(currentPath, paired)), paths, maxDepth)
      ELSE SearchPaths(toks, rest, paths, maxDepth)

\* findAllPaths(targetToken, maxDepth): paths of token ids, source first
findAllPaths(toks, target, maxDepth) == SearchPaths(toks, <<(<<target>>)>>, <<>>, maxDepth)

\* a swap at the spot price of the pool, without fee or curve
simulateSwap_Spot(tok, amountIn) ==
    IF tok.tokenReserve = 0 \/ tok.pairReserve = 0
    THEN [ok |-> FALSE, amountOut |-> 0]
    ELSE [ok |-> TRUE, amountOut |-> DecDiv(tok.tokenReserve * amountIn, tok.pairReserve)]

\* simulateSwap(token, amountIn, inputType): null (ok = FALSE) or amountOut
simulateSwap(tok, amountIn) ==
    IF tok.tokenReserve = 0 \/ tok.pairReserve = 0
    THEN [ok |-> FALSE, amountOut |-> 0]
    ELSE [ok |-> TRUE,
          amountOut |-> DecDiv(tok.tokenReserve * amountIn * FeeNum,
                               tok.pairReserve * FeeDen + amountIn * FeeNum)]

Hop(id, tok, amountIn, amountOut) ==
    [token |-> id, amountIn |-> amountIn, amountOut |-> amountOut, pairType |-> tok.pairType]

\* the for loop of calculatePathOutput over a multi-hop path, from hop i on
RECURSIVE WalkPath(_, _, _, _, _)
WalkPath(toks, path, i, currentAmount, hops) ==
    IF i > Len(path) THEN [hops |-> hops, totalAmountOut |-> currentAmount]
    ELSE
      LET token == toks[path[i]]
          amountIn == IF i = 1 /\ token.pairType = "WPLS"
                      THEN DecDiv(currentAmount, plsPrice)
                      ELSE currentAmount
          result == simulateSwap(token, amountIn)
      IN IF ~result.ok THEN NoRoute
         ELSE WalkPath(toks, path, i + 1, result.amountOut,
                       Append(hops, Hop(path[i], token, amountIn, result.amountOut)))

\* a simulation of the last pool of the path only
calculatePathOutput_LastOnly(toks, path, amountIn) ==
    LET token == toks[path[Len(path)]]
        result == simulateSwap(token, amountIn)
    IN IF ~result.ok THEN NoRoute
       ELSE [hops |-> <<Hop(path[Len(path)], token, amountIn, result.amountOut)>>,
             totalAmountOut |-> result.amountOut]

\* calculatePathOutput(path, amountIn): the Route, or null
calculatePathOutput(toks, path, amountIn) ==
    IF Len(path) = 0 THEN NoRoute
    ELSE IF Len(path) = 1
    THEN LET token == toks[path[1]] IN
         IF token.pairType = "USD"
         THEN LET result == simulateSwap(token, amountIn) IN
              IF ~result.ok THEN NoRoute
              ELSE [hops |-> <<Hop(path[1], token, amountIn, result.amountOut)>>,
                    totalAmountOut |-> result.amountOut]
         ELSE IF token.pairType = "WPLS"
         THEN LET wplsAmount == DecDiv(amountIn, plsPrice)
                  result == simulateSwap(token, wplsAmount)
              IN IF ~result.ok THEN NoRoute
                 ELSE [hops |-> <<Hop(path[1], token, amountIn, result.amountOut)>>,
                       totalAmountOut |-> result.amountOut]
         ELSE [hops |-> <<>>, totalAmountOut |-> amountIn]
    ELSE WalkPath(toks, path, 1, amountIn, <<>>)

\* the for loop of findBestPath over the paths
RECURSIVE BestOf(_, _, _, _, _)
BestOf(toks, paths, i, amountIn, best) ==
    IF i > Len(paths) THEN best
    ELSE LET route == calculatePathOutput(toks, paths[i], amountIn)
         IN IF route # NoRoute /\ route.totalAmountOut > best.totalAmountOut
            THEN BestOf(toks, paths, i + 1, amountIn, route)
            ELSE BestOf(toks, paths, i + 1, amountIn, best)

\* a search that gives up every route
findBestPath_NoRoute(toks, target, amountIn) == NoRoute

\* findBestPath(targetToken, amountIn): the best Route, or null
findBestPath(toks, target, amountIn) ==
    BestOf(toks, findAllPaths(toks, target, MaxRoutingHops), 1, amountIn, NoRoute)

\* a hop applied without the k update
ApplyHop_StaleK(toks, hop, t) ==
    updateLiquidityDisplay(
       [toks EXCEPT ![hop.token].pairReserve = @ + hop.amountIn,
                    ![hop.token].tokenReserve = @ - hop.amountOut], hop.token, t)

\* what executeRoute does with one hop of the route
ApplyHop(toks, hop, t) ==
    LET token == toks[hop.token]
        newPair == token.pairReserve + hop.amountIn
        newToken == token.tokenReserve - hop.amountOut
    IN updateLiquidityDisplay(
          [toks EXCEPT ![hop.token].pairReserve = newPair,
                       ![hop.token].tokenReserve = newToken,
                       ![hop.token].k = newToken * newPair], hop.token, t)

RECURSIVE ApplyHops(_, _, _, _)
ApplyHops(toks, hops, i, t) ==
    IF i > Len(hops) THEN toks
    ELSE ApplyHops(ApplyHop(toks, hops[i], t), hops, i + 1, t)

\* a route execution that stops after its first hop
executeRoute_FirstHop(toks, route, t) ==
    IF route = NoRoute \/ Len(route.hops) = 0
    THEN [success |-> FALSE, finalAmount |-> 0, toks |-> toks]
    ELSE [success |-> TRUE, finalAmount |-> route.totalAmountOut,
          toks |-> ApplyHop(toks, route.hops[1], t)]

\* executeRoute(route, amountIn, walletId): success, finalAmount and the
\* token table after the call
executeRoute(toks, route, t) ==
    IF route = NoRoute \/ Len(route.hops) = 0
    THEN [success |-> FALSE, finalAmount |-> 0, toks |-> toks]
    ELSE [success |-> TRUE, finalAmount |-> route.totalAmountOut,
          toks |-> ApplyHops(toks, route.hops, 1, t)]

-----------------------------------------------------------------------------
(* What a step reports: the handler that ran, the token it worked on and   *)
(* its result: "ok", "fail" (false / success:false returned) or "pending"  *)
(* (the call is suspended at an await)                                     *)

Report(op, result, tok) == [op |-> op, result |-> result, tok |-> tok]

TradeVars == <<requireGas, requireRoutingConfirmation, isPaused, tasks,
               transactionCount, totalProcessed, totalGasUsed, wallets, strategy>>

ConstructedTokens == [id \in TokenIds |-> NewToken(id)]

NoTask == [pc |-> "idle", walletId |-> "", tokenId |-> NoToken, amount |-> 0,
           gasUsed |-> 0, route |-> NoRoute]

\* the module state of the automated trading before any strategy: no
\* activeStrategy, strategyInterval null, no timer pending. handle says that
\* strategyInterval holds a timer id, latestPending that the timer it names
\* has not fired yet, scheduled counts the executeStrategyStep timers pending
NoStrategy ==
    [active |-> FALSE, tradingMode |-> "buy-only", continuousMode |-> FALSE,
     totalTrades |-> 0, currentTrade |-> 0,
     handle |-> FALSE, latestPending |-> FALSE, scheduled |-> 0]

\* new Wallet(config): no token balance, a million PLS and a million USD
NewWallet ==
    [tokenBalances |-> [id \in TokenIds |-> 0], plsBalance |-> Million,
     usdBalance |-> Million]

\* initializeStateValues and the state literal of state.js; initializeWalletSystem
\* creates wallet 1
InitSettings ==
    /\ plsPrice = 1
    /\ applySlippage = TRUE
    /\ requireGas = TRUE
    /\ requireRoutingConfirmation = FALSE
    /\ isPaused = FALSE
    /\ now = StartTime
    /\ tasks = [i \in TaskIds |-> NoTask]
    /\ transactionCount = 0
    /\ totalProcessed = 0
    /\ totalGasUsed = 0
    /\ wallets = <<NewWallet>>
    /\ strategy = NoStrategy
    /\ last = Report("init", "ok", NoToken)

-----------------------------------------------------------------------------
(* Handlers of the token box, the settings panel and the metrics timer *)

\* the 'change' listener of .pair-select
SelectPair(id, pairType, paired) ==
    /\ budget > 0
    /\ \/ pairType \in {"USD", "WPLS"} /\ paired = NoToken
       \/ pairType = "TOKEN" /\ paired \in TokenIds \ {id}
    /\ tokens[id].pairType # pairType \/ tokens[id].pairedTokenId # paired
    /\ tokens' = updateLiquidityDisplay(
                    [tokens EXCEPT ![id].pairType = pairType,
                                   ![id].pairedTokenId = paired], id, now)
    /\ budget' = budget - 1
    /\ last' = Report("selectPair", "ok", id)
    /\ UNCHANGED <<plsPrice, applySlippage, now>>
    /\ UNCHANGED TradeVars

\* the 'click' listener of .add-liquidity-btn
AddLiquidity(id, tokenAmount, pairAmount) ==
    /\ budget > 0
    /\ LET r == addLiquidity(tokens, id, tokenAmount, pairAmount, now)
       IN /\ tokens' = r.toks
          /\ last' = Report("addLiquidity", IF r.ok THEN "ok" ELSE "fail", id)
    /\ budget' = budget - 1
    /\ UNCHANGED <<plsPrice, applySlippage, now>>
    /\ UNCHANGED TradeVars

\* Token.executeBuy called on a pool
ExecuteBuy(id, amountIn) ==
    /\ budget > 0
    /\ LET r == executeBuy(tokens, id, amountIn, now)
       IN /\ tokens' = r.toks
          /\ last' = Report("executeBuy", IF r.success THEN "ok" ELSE "fail", id)
    /\ budget' = budget - 1
    /\ UNCHANGED <<plsPrice, applySlippage, now>>
    /\ UNCHANGED TradeVars

\* handleApplySlippageChange
ToggleSlippage ==
    /\ applySlippage' = ~applySlippage
    /\ last' = Report("applySlippage", "ok", NoToken)
    /\ UNCHANGED <<tokens, plsPrice, now, budget>>
    /\ UNCHANGED TradeVars

\* state.tokens.forEach(token => token.updateLiquidityDisplay()) once
\* state.plsPrice is pls: two price reads per token, each with its own visited set
RECURSIVE RefreshDisplays(_, _, _, _)
RefreshDisplays(toks, i, t, pls) ==
    IF i > NumTokens THEN toks
    ELSE LET first == PriceAt(toks, i, {}, t, pls).toks
         IN RefreshDisplays(PriceAt(first, i, {}, t, pls).toks, i + 1, t, pls)

\* handleWplsPriceChange
SetPlsPrice(price) ==
    /\ budget > 0
    /\ price # plsPrice
    /\ plsPrice' = price
    /\ tokens' = RefreshDisplays(tokens, 1, now, price)
    /\ budget' = budget - 1
    /\ last' = Report("plsPrice", "ok", NoToken)
    /\ UNCHANGED <<applySlippage, now>>
    /\ UNCHANGED TradeVars

\* the setInterval callback of startMetricsUpdate
MetricsTick ==
    /\ tokens' = updateAllTokenPrices(tokens, now).toks
    /\ last' = Report("updateAllTokenPrices", "ok", NoToken)
    /\ UNCHANGED <<plsPrice, applySlippage, now, budget>>
    /\ UNCHANGED TradeVars

\* time passes
Tick ==
    /\ now < StartTime + MaxTicks * TickMs
    /\ now' = now + TickMs
    /\ last' = Report("tick", "ok", NoToken)
    /\ UNCHANGED <<tokens, plsPrice, applySlippage, budget>>
    /\ UNCHANGED TradeVars

-----------------------------------------------------------------------------
(* Liquidity: pairings and deposits *)

LiqAmounts == {400, InitialSupply}   \* amounts typed into the liquidity form

InitLiquidity ==
    /\ InitSettings
    /\ tokens = ConstructedTokens
    /\ budget = MaxBudget

NextLiquidity ==
    \/ \E id \in TokenIds, pt \in {"USD", "WPLS", "TOKEN"}, p \in TokenIds \cup {NoToken} :
          SelectPair(id, pt, p)
    \/ \E id \in TokenIds, ta \in LiqAmounts, pa \in LiqAmounts : AddLiquidity(id, ta, pa)

SpecLiquidity == InitLiquidity /\ [][NextLiquidity]_vars

-----------------------------------------------------------------------------
(* Swaps on one pool *)

BuyAmounts == {100, 500}             \* amounts passed to executeBuy / processBuy
GasAmounts == {1, 2}                 \* calculateGas: minGlobalGas..maxGlobalGas

NextSwap ==
    \/ \E id \in TokenIds, pt \in {"USD", "WPLS"} : SelectPair(id, pt, NoToken)
    \/ \E id \in TokenIds, ta \in LiqAmounts, pa \in LiqAmounts : AddLiquidity(id, ta, pa)
    \/ \E id \in TokenIds, a \in BuyAmounts : ExecuteBuy(id, a)
    \/ ToggleSlippage

SpecSwap == InitLiquidity /\ [][NextSwap]_vars

-----------------------------------------------------------------------------
(* Price resolution *)

PlsPrices == {1, 2}                  \* positions of the WPLS price slider

\* every token funded against USD by one accepted addLiquidity call, token id
\* with 400 tokens and 200 * id of the pair asset; a call on a USD pair
\* writes no token but its own
FundAll(toks) ==
    [id \in TokenIds |-> addLiquidity(toks, id, 400, 200 * id, StartTime).toks[id]]

InitPrice ==
    /\ InitSettings
    /\ tokens = FundAll(ConstructedTokens)
    /\ budget = PriceOps

NextPrice ==
    \/ \E id \in TokenIds, pt \in {"USD", "WPLS", "TOKEN"}, p \in TokenIds \cup {NoToken} :
          SelectPair(id, pt, p)
    \/ \E id \in TokenIds : ExecuteBuy(id, 100)
    \/ \E price \in PlsPrices : SetPlsPrice(price)
    \/ MetricsTick
    \/ Tick

SpecPrice == InitPrice /\ [][NextPrice]_vars

-----------------------------------------------------------------------------
(* transactions.js: processBuy and the chain it starts.                    *)
(* A call runs without interruption up to its next await; a task slot      *)
(* holds what a suspended call resumes with:                               *)
(*   "confirm"  awaiting confirmRoute                                      *)
(*   "prices"   awaiting import('./state.js'), before updateAllTokenPrices *)
(*   "delay"    awaiting the setTimeout of processNextTransaction          *)

WalletInputs == {"wallet 1", "1"}    \* values handed over as walletId
MaxTokens == 20                      \* state.maxTokens

validatePositiveNumber(value) == value > 0

\* /^wallet \d+$/ on the inputs above
validateWalletId(walletId) == walletId = "wallet 1"

validateTokenId(tokenId, maxTokens) == tokenId >= 1 /\ tokenId <= maxTokens

\* if (state.isPaused) at the top of processBuy
TradingPaused_Never == FALSE
TradingPaused == isPaused

\* the call in slot i returns without having changed anything
Reject(i, op, tokenId) ==
    /\ tasks' = [tasks EXCEPT ![i] = NoTask]
    /\ last' = Report(op, "fail", tokenId)
    /\ UNCHANGED <<tokens, transactionCount, totalProcessed, totalGasUsed>>

\* processBuy from the gas check to the await of import('./state.js'); toks is
\* the token table the swap step left. When the gas check fails the undo
\* block reads pairAssetAmount outside the block that declares it: after a
\* swap that throws before any reserve is restored, and the catch returns
\* success:false; without a swap nothing is undone.
Settle(i, op, walletId, tokenId, amount, gasUsed, toks) ==
    IF requireGas /\ toks[tokenId].plsBalance < gasUsed
    THEN /\ tokens' = toks
         /\ tasks' = [tasks EXCEPT ![i] = NoTask]
         /\ last' = Report(op, "fail", tokenId)
         /\ UNCHANGED <<transactionCount, totalProcessed, totalGasUsed>>
    ELSE LET paid == IF requireGas THEN gasUsed ELSE 0
             t1 == [toks EXCEPT ![tokenId].plsBalance = @ - paid,
                                ![tokenId].amountProcessed = @ + amount]
         IN /\ tokens' = updateDisplay(t1, tokenId, now)
            /\ totalGasUsed' = totalGasUsed + paid
            /\ totalProcessed' = totalProcessed + amount
            /\ transactionCount' = transactionCount + 1
            /\ tasks' = [tasks EXCEPT ![i] =
                           [pc |-> "prices", walletId |-> walletId, tokenId |-> tokenId,
                            amount |-> amount, gasUsed |-> gasUsed, route |-> NoRoute]]
            /\ last' = Report(op, "pending", tokenId)

\* processBuy from its first line to its first await, run in slot i; g is
\* the value calculateGas draws
BuyEntry(i, op, walletId, tokenId, amount, g) ==
    IF \/ ~validatePositiveNumber(amount)
       \/ ~validateWalletId(walletId)
       \/ ~validateTokenId(tokenId, MaxTokens)
       \/ TradingPaused
       \/ ~TokenExists(tokenId)
    THEN Reject(i, op, tokenId)
    ELSE
      LET token == tokens[tokenId]
          gasUsed == IF requireGas THEN g ELSE 0
      IN
      IF token.pairReserve # 0 /\ token.tokenReserve # 0
      THEN
        IF token.pairType = "TOKEN"
        THEN LET route == findBestPath(tokens, tokenId, amount) IN
             IF route = NoRoute THEN Reject(i, op, tokenId)
             ELSE IF requireRoutingConfirmation /\ Len(route.hops) > 1
             THEN /\ tasks' = [tasks EXCEPT ![i] =
                                 [pc |-> "confirm", walletId |-> walletId,
                                  tokenId |-> tokenId, amount |-> amount,
                                  gasUsed |-> gasUsed, route |-> route]]
                  /\ last' = Report(op, "pending", tokenId)
                  /\ UNCHANGED <<tokens, transactionCount, totalProcessed, totalGasUsed>>
             ELSE LET r == executeRoute(tokens, route, now) IN
                  IF ~r.success THEN Reject(i, op, tokenId)
                  ELSE Settle(i, op, walletId, tokenId, amount, gasUsed, r.toks)
        ELSE LET pairAssetAmount == IF token.pairType = "USD" THEN amount
                                    ELSE DecDiv(amount, plsPrice)
                 buyResult == executeBuy(tokens, tokenId, pairAssetAmount, now)
             IN IF ~buyResult.success THEN Reject(i, op, tokenId)
                ELSE Settle(i, op, walletId, tokenId, amount, gasUsed, buyResult.toks)
      ELSE Settle(i, op, walletId, tokenId, amount, gasUsed, tokens)

TradeFrame == UNCHANGED <<plsPrice, applySlippage, requireGas,
                          requireRoutingConfirmation, isPaused, now, wallets,
                          strategy>>

\* handleBuy / a strategy step calls processBuy; the call takes the first
\* free slot
StartBuy(walletId, tokenId, amount, g) ==
    /\ budget > 0
    /\ \E i \in TaskIds :
          /\ tasks[i].pc = "idle"
          /\ \A j \in TaskIds : j < i => tasks[j].pc # "idle"
          /\ BuyEntry(i, "processBuy", walletId, tokenId, amount, g)
    /\ budget' = budget - 1
    /\ TradeFrame

\* confirmRoute resolves: the call goes on with the route it found before
\* the await
ConfirmRoute(i, confirmed) ==
    /\ tasks[i].pc = "confirm"
    /\ LET task == tasks[i] IN
       IF ~confirmed THEN Reject(i, "confirmRoute", task.tokenId)
       ELSE LET r == executeRoute(tokens, task.route, now) IN
            IF ~r.success THEN Reject(i, "confirmRoute", task.tokenId)
            ELSE Settle(i, "confirmRoute", task.walletId, task.tokenId, task.amount,
                        task.gasUsed, r.toks)
    /\ UNCHANGED budget
    /\ TradeFrame

shouldContinueChain(token) ==
    token.selectedOppositeToken # NoToken /\ token.oppositeTokenPercentage > 0 /\ ~isPaused

\* the import resolves: updateAllTokenPrices, then shouldContinueChain and
\* processNextTransaction up to its setTimeout
AfterImport(i) ==
    /\ tasks[i].pc = "prices"
    /\ LET task == tasks[i]
           t1 == updateAllTokenPrices(tokens, now).toks
           token == t1[task.tokenId]
           next == token.selectedOppositeToken
           plsAmount == DecDiv(task.amount * token.plsPercentage, 100)
           nextAmount == DecDiv(task.amount * token.oppositeTokenPercentage, 100)
       IN IF shouldContinueChain(token) /\ TokenExists(next)
          THEN /\ tokens' = updateDisplay([t1 EXCEPT ![next].plsBalance = @ + plsAmount],
                                          next, now)
               /\ IF nextAmount > 0
                  THEN /\ tasks' = [tasks EXCEPT ![i] =
                                      [pc |-> "delay", walletId |-> task.walletId,
                                       tokenId |-> next, amount |-> nextAmount,
                                       gasUsed |-> 0, route |-> NoRoute]]
                       /\ last' = Report("processNextTransaction", "pending", next)
                  ELSE /\ tasks' = [tasks EXCEPT ![i] = NoTask]
                       /\ last' = Report("processBuy", "ok", task.tokenId)
          ELSE /\ tokens' = t1
               /\ tasks' = [tasks EXCEPT ![i] = NoTask]
               /\ last' = Report("processBuy", "ok", task.tokenId)
    /\ UNCHANGED <<budget, transactionCount, totalProcessed, totalGasUsed>>
    /\ TradeFrame

\* the setTimeout of processNextTransaction fires: the chained processBuy runs
\* (a run of the model ends when MaxChainSteps transactions were counted)
ChainTimer(i, g) ==
    /\ tasks[i].pc = "delay"
    /\ transactionCount < MaxChainSteps
    /\ BuyEntry(i, "chainStep", tasks[i].walletId, tasks[i].tokenId, tasks[i].amount, g)
    /\ UNCHANGED budget
    /\ TradeFrame

\* handlePause
TogglePause ==
    /\ isPaused' = ~isPaused
    /\ last' = Report("pause", "ok", NoToken)
    /\ UNCHANGED <<tokens, plsPrice, applySlippage, requireGas, requireRoutingConfirmation,
                   now, tasks, transactionCount, totalProcessed, totalGasUsed, wallets,
                   strategy, budget>>

\* handleRoutingConfirmationChange
ToggleRoutingConfirmation ==
    /\ requireRoutingConfirmation' = ~requireRoutingConfirmation
    /\ last' = Report("routingConfirmation", "ok", NoToken)
    /\ UNCHANGED <<tokens, plsPrice, applySlippage, requireGas, isPaused,
                   now, tasks, transactionCount, totalProcessed, totalGasUsed, wallets,
                   strategy, budget>>

\* parseInt on the inputs above: "wallet 1" has no leading digits
NotANumber == -1
parseInt(walletId) == IF walletId = "1" THEN 1 ELSE NotANumber

\* getWalletById(id) finds a wallet: the ids are 1 .. state.wallets.length
WalletFound(id) == id \in 1..Len(wallets)

\* processBuy / processSell of the wallet-based transactions module: the
\* steps up to the wallet lookup. validateWalletId accepts only "wallet N",
\* and parseInt of such a string is NaN, which matches no wallet id, so no
\* input passes both and the rest of either function never runs.
WalletTrade(op, walletId, tokenId, amount) ==
    /\ budget > 0
    /\ \/ ~validatePositiveNumber(amount)
       \/ ~validateWalletId(walletId)
       \/ ~validateTokenId(tokenId, MaxTokens)
       \/ isPaused
       \/ ~TokenExists(tokenId)
       \/ ~WalletFound(parseInt(walletId))
    /\ last' = Report(op, "fail", tokenId)
    /\ budget' = budget - 1
    /\ UNCHANGED <<tokens, plsPrice, applySlippage, now>>
    /\ UNCHANGED TradeVars

\* the pools of a run: token 1 has put all its PLS into a WPLS pool, token 2
\* is paired with token 1 and chains half of every buy on to token 3, which
\* has a USD pool
TradeTokens ==
    LET paired == [ConstructedTokens EXCEPT ![1].pairType = "WPLS",
                                            ![2].pairType = "TOKEN",
                                            ![2].pairedTokenId = 1,
                                            ![2].selectedOppositeToken = 3,
                                            ![2].oppositeTokenPercentage = 50,
                                            ![2].plsPercentage = 10]
        one == addLiquidity(paired, 1, 800, InitialPls, StartTime).toks
        two == addLiquidity(one, 2, InitialSupply, 200, StartTime).toks
    IN addLiquidity(two, 3, 400, 400, StartTime).toks

InitTrade ==
    /\ InitSettings
    /\ tokens = TradeTokens
    /\ budget = MaxTx

NextTrade ==
    \/ \E w \in WalletInputs, id \in TokenIds, a \in BuyAmounts, g \in GasAmounts :
          StartBuy(w, id, a, g)
    \/ \E i \in TaskIds, c \in BOOLEAN : ConfirmRoute(i, c)
    \/ \E i \in TaskIds : AfterImport(i)
    \/ \E i \in TaskIds, g \in GasAmounts : ChainTimer(i, g)
    \/ \E op \in {"wallet.processBuy", "wallet.processSell"}, w \in WalletInputs,
          id \in TokenIds, a \in BuyAmounts : WalletTrade(op, w, id, a)
    \/ TogglePause
    \/ ToggleRoutingConfirmation

SpecTrade == InitTrade /\ [][NextTrade]_vars

-----------------------------------------------------------------------------
(* Every code path that writes a reserve, on the pools of a trading run *)

MechanicsAmounts == {100, 300}       \* token amounts handed to processTransactionMechanics
Percents == {0, 10}                  \* burnPercent / lpFeePercent of a preset
SwapAmounts == {50, 200}             \* amounts of a token-to-token swap

\* processTransactionMechanics(token, tokenAmount, wallets): the burn and the
\* LP-fee injection. The reflection shares go to wallet balances and the
\* totalBurned / totalReflected / lpFeesCollected counters are display
\* figures; neither is part of the token table.
processTransactionMechanics(toks, id, tokenAmount, burnPercent, lpFeePercent) ==
    LET token == toks[id]
        burnAmount == DecDiv(tokenAmount * burnPercent, 100)
        lpFeeAmount == DecDiv(tokenAmount * lpFeePercent, 100)
        burned == IF burnAmount > 0
                  THEN [toks EXCEPT ![id].totalSupply = @ - burnAmount]
                  ELSE toks
        lpTokenAmount == DecDiv(lpFeeAmount, 2)
        lpPairAmount == DecDiv(lpTokenAmount * token.pairReserve, token.tokenReserve)
        newToken == token.tokenReserve + lpTokenAmount
        newPair == token.pairReserve + lpPairAmount
    IN IF lpFeeAmount > 0 /\ token.tokenReserve # 0 /\ token.pairReserve # 0
       THEN [burned EXCEPT ![id].tokenReserve = newToken,
                           ![id].pairReserve = newPair,
                           ![id].k = newToken * newPair]
       ELSE burned

\* processTransactionMechanics is called by processBuy and processSell of the
\* wallet-based module with the token amount of the trade; it is taken here
\* as callable with any amount and any preset, which covers every call
TransactionMechanics(id, tokenAmount, burnPercent, lpFeePercent) ==
    /\ budget > 0
    /\ tokens' = processTransactionMechanics(tokens, id, tokenAmount, burnPercent, lpFeePercent)
    /\ budget' = budget - 1
    /\ last' = Report("processTransactionMechanics", "ok", id)
    /\ UNCHANGED <<plsPrice, applySlippage, now>>
    /\ UNCHANGED TradeVars

\* Wallet.getTokenBalance(tokenId)
getTokenBalance(wallet, tokenId) == wallet.tokenBalances[tokenId]

\* Wallet.setTokenBalance(tokenId, balance)
setTokenBalance(wallet, tokenId, balance) ==
    [wallet EXCEPT !.tokenBalances[tokenId] = balance]

\* Wallet.addTokenBalance(tokenId, amount)
addTokenBalance(wallet, tokenId, amount) ==
    setTokenBalance(wallet, tokenId, getTokenBalance(wallet, tokenId) + amount)

\* a debit of tokens that does not look at the balance
subtractTokenBalance_Unchecked(wallet, tokenId, amount) ==
    [ok |-> TRUE,
     wallet |-> setTokenBalance(wallet, tokenId, getTokenBalance(wallet, tokenId) - amount)]

\* Wallet.subtractTokenBalance(tokenId, amount): the value returned and the
\* wallet after the call
subtractTokenBalance(wallet, tokenId, amount) ==
    IF getTokenBalance(wallet, tokenId) < amount
    THEN [ok |-> FALSE, wallet |-> wallet]
    ELSE [ok |-> TRUE,
          wallet |-> setTokenBalance(wallet, tokenId,
                                     getTokenBalance(wallet, tokenId) - amount)]

\* Wallet.addUSD(amount)
addUSD(wallet, amount) == [wallet EXCEPT !.usdBalance = @ + amount]

\* Wallet.subtractUSD(amount)
subtractUSD(wallet, amount) ==
    IF wallet.usdBalance < amount
    THEN [ok |-> FALSE, wallet |-> wallet]
    ELSE [ok |-> TRUE, wallet |-> [wallet EXCEPT !.usdBalance = @ - amount]]

\* Wallet.addPLS(amount)
addPLS(wallet, amount) == [wallet EXCEPT !.plsBalance = @ + amount]

\* Wallet.subtractPLS(amount)
subtractPLS(wallet, amount) ==
    IF wallet.plsBalance < amount
    THEN [ok |-> FALSE, wallet |-> wallet]
    ELSE [ok |-> TRUE, wallet |-> [wallet EXCEPT !.plsBalance = @ - amount]]

\* the "add wallet" dialog: createWallet(name)
CreateWallet ==
    /\ budget > 0
    /\ Len(wallets) < MaxWallets
    /\ wallets' = Append(wallets, NewWallet)
    /\ budget' = budget - 1
    /\ last' = Report("createWallet", "ok", NoToken)
    /\ UNCHANGED <<tokens, plsPrice, applySlippage, now, requireGas,
                   requireRoutingConfirmation, isPaused, tasks, transactionCount,
                   totalProcessed, totalGasUsed, strategy>>

\* handleAdd1mPls, for the wallet selected in the wallet dropdown
Add1mPls ==
    /\ budget > 0
    /\ \E w \in 1..Len(wallets) :
          wallets' = [wallets EXCEPT ![w] = addPLS(@, Million)]
    /\ budget' = budget - 1
    /\ last' = Report("add1mPls", "ok", NoToken)
    /\ UNCHANGED <<tokens, plsPrice, applySlippage, now, requireGas,
                   requireRoutingConfirmation, isPaused, tasks, transactionCount,
                   totalProcessed, totalGasUsed, strategy>>

\* addPlsToAll(totalAmount): every wallet gets totalAmount / wallets.length
AddPlsToAll(totalAmount) ==
    /\ budget > 0
    /\ IF ~validatePositiveNumber(totalAmount)
       THEN /\ UNCHANGED wallets
            /\ last' = Report("addPlsToAll", "fail", NoToken)
       ELSE /\ wallets' = [w \in 1..Len(wallets) |->
                              addPLS(wallets[w], DecDiv(totalAmount, Len(wallets)))]
            /\ last' = Report("addPlsToAll", "ok", NoToken)
    /\ budget' = budget - 1
    /\ UNCHANGED <<tokens, plsPrice, applySlippage, now, requireGas,
                   requireRoutingConfirmation, isPaused, tasks, transactionCount,
                   totalProcessed, totalGasUsed, strategy>>

\* handleSwapAction, token-to-token branch, for the wallet selected in the
\* wallet dropdown; payAmount and receiveAmount are the amount typed in and
\* the quote left in swapState (the button is enabled for positive amounts
\* only). A wallet that holds less than payAmount of the pay token gets an
\* alert and nothing is written. Otherwise the two token balances are moved;
\* on a directly paired pool the reserves and k are written and the call of
\* invalidatePriceCascade, which Token does not define, ends the handler
\* with a TypeError; otherwise the prices and the displays of both tokens
\* are refreshed.
TokenToTokenSwap(pay, receive, payAmount, receiveAmount) ==
    /\ budget > 0
    /\ pay # receive
    /\ \E w \in 1..Len(wallets) :
        IF getTokenBalance(wallets[w], pay) < payAmount
        THEN /\ last' = Report("handleSwapAction", "rejected", pay)
             /\ UNCHANGED <<tokens, wallets>>
        ELSE
          /\ wallets' = [wallets EXCEPT ![w] =
                           addTokenBalance(addTokenBalance(@, pay, 0 - payAmount),
                                           receive, receiveAmount)]
          /\ LET payToken == tokens[pay]
                 receiveToken == tokens[receive]
             IN IF payToken.pairType = "TOKEN" /\ payToken.pairedTokenId = receive
                THEN LET newToken == payToken.tokenReserve + payAmount
                         newPair == payToken.pairReserve - receiveAmount
                     IN /\ tokens' = [tokens EXCEPT ![pay].tokenReserve = newToken,
                                                    ![pay].pairReserve = newPair,
                                                    ![pay].k = newToken * newPair]
                        /\ last' = Report("handleSwapAction", "threw", pay)
                ELSE IF receiveToken.pairType = "TOKEN" /\ receiveToken.pairedTokenId = pay
                THEN LET newPair == receiveToken.pairReserve + payAmount
                         newToken == receiveToken.tokenReserve - receiveAmount
                     IN /\ tokens' = [tokens EXCEPT ![receive].pairReserve = newPair,
                                                    ![receive].tokenReserve = newToken,
                                                    ![receive].k = newToken * newPair]
                        /\ last' = Report("handleSwapAction", "threw", receive)
                ELSE LET t1 == updateAllTokenPrices(tokens, now).toks
                         t2 == updateLiquidityDisplay(updateDisplay(t1, pay, now), pay, now)
                     IN /\ tokens' = updateLiquidityDisplay(updateDisplay(t2, receive, now),
                                                            receive, now)
                        /\ last' = Report("handleSwapAction", "ok", receive)
    /\ budget' = budget - 1
    /\ UNCHANGED <<plsPrice, applySlippage, now, requireGas, requireRoutingConfirmation,
                   isPaused, tasks, transactionCount, totalProcessed, totalGasUsed,
                   strategy>>

\* a search that commits the hops of the route it returns
TokensAfterSearch_Committed(toks, target, amountIn) ==
    executeRoute(toks, findBestPath(toks, target, amountIn), StartTime).toks

\* the token table when findBestPath(targetToken, amountIn) has returned:
\* findAllPaths, calculatePathOutput, simulateSwap and buildPathDescription
\* read pairType, pairedTokenId, name and the two reserves and assign to
\* locals only
TokensAfterSearch(toks, target, amountIn) == toks

\* getRoutePreview(targetToken, amountIn)
GetRoutePreview(target, amountIn) ==
    /\ budget > 0
    /\ tokens' = TokensAfterSearch(tokens, target, amountIn)
    /\ budget' = budget - 1
    /\ last' = Report("getRoutePreview",
                      IF findBestPath(tokens, target, amountIn) = NoRoute
                      THEN "fail" ELSE "ok", target)
    /\ UNCHANGED <<plsPrice, applySlippage, now>>
    /\ UNCHANGED TradeVars

InitPool ==
    /\ InitSettings
    /\ tokens = TradeTokens
    /\ budget = PoolOps

NextPool ==
    \/ \E id \in TokenIds, ta \in LiqAmounts, pa \in LiqAmounts : AddLiquidity(id, ta, pa)
    \/ \E id \in TokenIds, a \in BuyAmounts : ExecuteBuy(id, a)
    \/ ToggleSlippage
    \/ \E id \in TokenIds, a \in BuyAmounts : StartBuy("wallet 1", id, a, 1)
    \/ \E i \in TaskIds : AfterImport(i)
    \/ \E i \in TaskIds : ChainTimer(i, 1)
    \/ \E id \in TokenIds, a \in MechanicsAmounts, b \in Percents, f \in Percents :
          TransactionMechanics(id, a, b, f)
    \/ \E pay \in TokenIds, receive \in TokenIds, pa \in SwapAmounts, ra \in SwapAmounts :
          TokenToTokenSwap(pay, receive, pa, ra)
    \/ \E target \in TokenIds, a \in BuyAmounts : GetRoutePreview(target, a)

SpecPool == InitPool /\ [][NextPool]_vars

\* the selectedOppositeToken links the .opposite-token-select listeners can
\* set: every token chains to no token or to another token
ChainLinks ==
    {link \in [TokenIds -> {NoToken} \cup TokenIds] : \A id \in TokenIds : link[id] # id}

\* the values of oppositeTokenPercentage in a run: nothing or the whole amount
ChainPercentages == {0, 100}

\* the pools of a trading run with the links and percentages set before the
\* first buy, and with 10% of every chained amount going to the PLS balance
\* of the next token, so that a chained buy never lacks gas
ChainTokens(link, percentage) ==
    [id \in TokenIds |->
        [TradeTokens[id] EXCEPT !.plsPercentage = 10,
                                !.selectedOppositeToken = link[id],
                                !.oppositeTokenPercentage = percentage[id]]]

InitChain ==
    /\ InitSettings
    /\ \E link \in ChainLinks, percentage \in [TokenIds -> ChainPercentages] :
          tokens = ChainTokens(link, percentage)
    /\ budget = ChainOps

\* buys and their chains under links that nobody edits
NextChain ==
    \/ \E id \in TokenIds : StartBuy("wallet 1", id, 100, 1)
    \/ \E i \in TaskIds : AfterImport(i)
    \/ \E i \in TaskIds : ChainTimer(i, 1)

SpecChain == InitChain /\ [][NextChain]_vars

-----------------------------------------------------------------------------
(* Automated trading: startStrategy, executeStrategyStep, stopStrategy *)

\* strategyInterval = setTimeout(executeStrategyStep, ...)
Schedule(s) ==
    [s EXCEPT !.handle = TRUE, !.latestPending = TRUE, !.scheduled = @ + 1]

\* a stop that leaves the pending timer alone
stopStrategy_TimerKept(s) == [s EXCEPT !.active = FALSE, !.handle = FALSE]

\* stopStrategy(): clearTimeout of the timer strategyInterval names, which
\* removes it if it has not fired, and activeStrategy = null
stopStrategy(s) ==
    LET cleared == IF s.handle /\ s.latestPending
                   THEN [s EXCEPT !.scheduled = @ - 1, !.latestPending = FALSE]
                   ELSE s
    IN [cleared EXCEPT !.active = FALSE, !.handle = FALSE]

\* state.currentWalletId.toString() for a selected wallet: the decimal digits
\* of the id
WalletIdText(w) == IF w = 1 THEN "1" ELSE "2"

\* the trade of one step: "buy" calls processBuy and "sell" calls processSell
\* (when the wallet holds the token) with the digits of the current wallet
\* id as walletId, which validateWalletId refuses, so either call returns
\* success:false before its first await; with no wallet selected the step
\* throws a TypeError instead. A sell for a wallet without the token is
\* skipped and counted as a success.
StepResult(action, w, target) ==
    IF w = NoWallet THEN "threw"
    ELSE IF action = "buy"
    THEN IF validateWalletId(WalletIdText(w)) THEN "awaited" ELSE "failed"
    ELSE IF getTokenBalance(wallets[w], target) > 0
    THEN IF validateWalletId(WalletIdText(w)) THEN "awaited" ELSE "failed"
    ELSE "success"

\* executeStrategyStep() from its first line to its return, the microtask
\* after "await processBuy / processSell" included: a failed and a thrown
\* step set the next timer, a successful one counts the trade and stops the
\* strategy when the trade count is reached or sets the next timer
executeStrategyStep(s, result) ==
    IF ~s.active THEN s
    ELSE IF result = "success"
    THEN LET counted == [s EXCEPT !.currentTrade = @ + 1]
         IN IF ~s.continuousMode /\ counted.currentTrade >= s.totalTrades
            THEN stopStrategy(counted)
            ELSE Schedule(counted)
    ELSE Schedule(s)

\* the actions a step may take under config.tradingMode
StepActions(mode) ==
    IF mode = "buy-only" THEN {"buy"}
    ELSE IF mode = "sell-only" THEN {"sell"}
    ELSE {"buy", "sell"}

StrategyFrame ==
    UNCHANGED <<tokens, plsPrice, applySlippage, now, requireGas,
                requireRoutingConfirmation, isPaused, tasks, transactionCount,
                totalProcessed, totalGasUsed, wallets>>

\* the 'click' listener of startStrategyBtn: startStrategy(config), with the
\* first step it runs; w is state.currentWalletId (NoWallet for null) and
\* target the token getTargetToken picks
StartStrategy(mode, amount, tradeCount, continuous, w, target) ==
    /\ budget > 0
    /\ IF strategy.active \/ amount <= 0 \/ (~continuous /\ tradeCount <= 0)
       THEN /\ UNCHANGED strategy
            /\ last' = Report("startStrategy", "rejected", NoToken)
       ELSE \E action \in StepActions(mode) :
               /\ StepResult(action, w, target) # "awaited"
               /\ strategy' = executeStrategyStep(
                                 [strategy EXCEPT !.active = TRUE,
                                                  !.tradingMode = mode,
                                                  !.continuousMode = continuous,
                                                  !.totalTrades = IF continuous THEN Infinity
                                                                  ELSE tradeCount,
                                                  !.currentTrade = 0],
                                 StepResult(action, w, target))
               /\ last' = Report("startStrategy", "ok", target)
    /\ budget' = budget - 1
    /\ StrategyFrame

\* a timer set by setTimeout(executeStrategyStep, ...) fires: the one
\* strategyInterval names (latest) or one set before it
StrategyTimer(latest, w, target) ==
    /\ strategy.scheduled > 0
    /\ strategy.currentTrade < MaxStrategyTrades
    /\ IF latest THEN strategy.latestPending
       ELSE strategy.scheduled > (IF strategy.latestPending THEN 1 ELSE 0)
    /\ \E action \in StepActions(strategy.tradingMode) :
          /\ StepResult(action, w, target) # "awaited"
          /\ strategy' = executeStrategyStep(
                            [strategy EXCEPT !.scheduled = @ - 1,
                                             !.latestPending = IF latest THEN FALSE ELSE @],
                            StepResult(action, w, target))
          /\ last' = Report("executeStrategyStep", StepResult(action, w, target), target)
    /\ UNCHANGED budget
    /\ StrategyFrame

\* the 'click' listener of stopStrategyBtn, confirmed
StopStrategy ==
    /\ budget > 0
    /\ strategy' = stopStrategy(strategy)
    /\ budget' = budget - 1
    /\ last' = Report("stopStrategy", "ok", NoToken)
    /\ StrategyFrame

StrategyModes == {"buy-only", "sell-only", "both"}
StrategyAmounts == {0, 100}
TradeCounts == {0, 1, 2}
CurrentWallets == {NoWallet, 1}

InitStrategy ==
    /\ InitSettings
    /\ tokens = TradeTokens
    /\ budget = StrategyOps

NextStrategy ==
    \/ \E mode \in StrategyModes, amount \in StrategyAmounts, count \in TradeCounts,
          continuous \in BOOLEAN, w \in CurrentWallets, target \in TokenIds :
          StartStrategy(mode, amount, count, continuous, w, target)
    \/ \E latest \in BOOLEAN, w \in CurrentWallets, target \in TokenIds :
          StrategyTimer(latest, w, target)
    \/ StopStrategy

SpecStrategy == InitStrategy /\ [][NextStrategy]_vars

\* the wallets of a trading run: wallets are created and granted PLS, the
\* swap card and the wallet-based processBuy / processSell are called, and
\* buys go through the pools
PlsTotals == {0, 300}

InitWallet ==
    /\ InitSettings
    /\ tokens = TradeTokens
    /\ budget = PoolOps

NextWallet ==
    \/ CreateWallet
    \/ Add1mPls
    \/ \E total \in PlsTotals : AddPlsToAll(total)
    \/ \E op \in {"wallet.processBuy", "wallet.processSell"}, w \in WalletInputs,
          id \in TokenIds, a \in BuyAmounts : WalletTrade(op, w, id, a)
    \/ \E pay \in TokenIds, receive \in TokenIds, pa \in SwapAmounts, ra \in SwapAmounts :
          TokenToTokenSwap(pay, receive, pa, ra)
    \/ \E id \in TokenIds, a \in BuyAmounts : StartBuy("wallet 1", id, a, 1)
    \/ \E i \in TaskIds : AfterImport(i)
    \/ \E i \in TaskIds : ChainTimer(i, 1)
    \/ TogglePause

SpecWallet == InitWallet /\ [][NextWallet]_vars

\* short runs of the pool operations on newly constructed tokens
InitSetup ==
    /\ InitSettings
    /\ tokens = ConstructedTokens
    /\ budget = PoolOps

SpecSetup == InitSetup /\ [][NextSwap]_vars

-----------------------------------------------------------------------------
(* capitalTracking.js *)


\* a depth that does not count the pairing
OnePlus_Same(depth) == depth

\* 1 + depth in JavaScript numbers: 1 + Infinity is Infinity
OnePlus(depth) == IF depth = Infinity THEN Infinity ELSE 1 + depth

\* value returned by calculateLiquidityDepth when the token id is already in
\* the visited set
CircularDepth == Infinity

\* calculateLiquidityDepth(token, visited)
RECURSIVE calculateLiquidityDepth(_, _, _)
calculateLiquidityDepth(toks, id, visited) ==
    IF id \in visited THEN CircularDepth
    ELSE IF toks[id].pairType \in {"USD", "WPLS"} THEN 0
    ELSE IF toks[id].pairType = "TOKEN" /\ toks[id].pairedTokenId # NoToken
    THEN IF ~TokenExists(toks[id].pairedTokenId) THEN Infinity
         ELSE OnePlus(calculateLiquidityDepth(toks, toks[id].pairedTokenId,
                                              visited \cup {id}))
    ELSE Infinity

CalculationModes == {"market", "backing"}    \* capitalCalculationMode

\* a WPLS reserve counted without the conversion to USD
calculateRealCapital_Unconverted(toks, id) ==
    IF toks[id].pairReserve # 0 /\ toks[id].pairType \in {"USD", "WPLS"}
    THEN toks[id].pairReserve
    ELSE 0

\* calculateRealCapital(token)
calculateRealCapital(toks, id) ==
    IF toks[id].pairReserve # 0 /\ toks[id].pairType = "USD"
    THEN toks[id].pairReserve
    ELSE IF toks[id].pairReserve # 0 /\ toks[id].pairType = "WPLS"
    THEN toks[id].pairReserve * plsPrice
    ELSE 0

\* calculateRealCapitalBacking(token, pairedToken, visited):
\* realCapitalBehindPaired x (pairReserve / totalSupply of the paired token)
RECURSIVE calculateRealCapitalBacking(_, _, _, _)
calculateRealCapitalBacking(toks, id, paired, visited) ==
    IF paired \in visited THEN 0
    ELSE IF toks[paired].totalSupply = 0 THEN 0
    ELSE
      LET pairedToken == toks[paired]
          realCapitalBehindPaired ==
             IF pairedToken.pairType = "USD" THEN pairedToken.pairReserve
             ELSE IF pairedToken.pairType = "WPLS" THEN pairedToken.pairReserve * plsPrice
             ELSE IF pairedToken.pairType = "TOKEN" /\ pairedToken.pairedTokenId # NoToken
                     /\ TokenExists(pairedToken.pairedTokenId)
             THEN calculateRealCapitalBacking(toks, paired, pairedToken.pairedTokenId,
                                              visited \cup {paired})
             ELSE 0
      IN DecDiv(realCapitalBehindPaired * toks[id].pairReserve, pairedToken.totalSupply)

\* calculateDerivedCapital(token) under the given capitalCalculationMode: the
\* amount in USD and the token table after the call (the market mode reads
\* the price of the paired token, which may rewrite price caches)
calculateDerivedCapital(toks, id, mode, t) ==
    LET token == toks[id]
    IN IF token.pairType = "TOKEN" /\ token.pairedTokenId # NoToken /\ token.pairReserve # 0
       THEN IF ~TokenExists(token.pairedTokenId) THEN [amount |-> 0, toks |-> toks]
            ELSE IF mode = "market"
            THEN LET r == calculateTokenPriceUSD(toks, token.pairedTokenId, {}, t)
                 IN [amount |-> DecDiv(token.pairReserve * r.price, PriceScale),
                     toks |-> r.toks]
            ELSE [amount |-> calculateRealCapitalBacking(toks, id, token.pairedTokenId, {}),
                  toks |-> toks]
       ELSE [amount |-> 0, toks |-> toks]

\* getCapitalBreakdown reads calculateDerivedCapital of every token in turn;
\* its sums are display figures, the price caches it rewrites stay
RECURSIVE TokensAfterBreakdown(_, _, _, _)
TokensAfterBreakdown(toks, i, mode, t) ==
    IF i > NumTokens THEN toks
    ELSE TokensAfterBreakdown(calculateDerivedCapital(toks, i, mode, t).toks, i + 1, mode, t)

PercentScale == 10      \* 1 + percentageChange / 100 is held in tenths

Percentages == {-50, 10, 50}     \* percentageChange, a multiple of ten other than 0

RECURSIVE Pow(_, _)
Pow(base, exponent) == IF exponent = 0 THEN 1 ELSE base * Pow(base, exponent - 1)

\* new Decimal(1).plus(new Decimal(percentageChange).dividedBy(100)), in tenths
Multiplier(percentageChange) == PercentScale + percentageChange \div PercentScale

\* an exponent that forgets the pool itself
DepthExponent_Depth(depth) == depth

\* multiplier.pow(depth + 1)
DepthExponent(depth) == depth + 1

\* one element of impacts. changePercent is held in units of
\* 1 / PercentScale^(NumTokens + 1) percent. For a token without a depth the
\* power is 0 below a multiplier of 1 and Infinity above it: its newValue is
\* 0, Infinity or (0 x Infinity) not a number, and its changePercent is 0 for
\* a value of 0, -100 below 1 and Infinity above.
Impact(toks, id, percentageChange, mode, t) ==
    LET depth == calculateLiquidityDepth(toks, id, {})
        originalValue == calculateRealCapital(toks, id)
                            + calculateDerivedCapital(toks, id, mode, t).amount
        multiplier == Multiplier(percentageChange)
        unit == Pow(PercentScale, NumTokens + 1)
    IN IF depth # Infinity
       THEN [tokenId |-> id, depth |-> depth, originalValue |-> originalValue,
             newValue |-> DecDiv(originalValue * Pow(multiplier, DepthExponent(depth)),
                                 Pow(PercentScale, DepthExponent(depth))),
             changePercent |->
                IF originalValue = 0 THEN 0
                ELSE (Pow(multiplier, DepthExponent(depth))
                         * Pow(PercentScale, NumTokens + 1 - DepthExponent(depth))
                      - unit) * 100]
       ELSE [tokenId |-> id, depth |-> depth, originalValue |-> originalValue,
             newValue |-> IF multiplier < PercentScale THEN 0
                          ELSE IF originalValue = 0 THEN NotANumber ELSE Infinity,
             changePercent |-> IF originalValue = 0 THEN 0
                               ELSE IF multiplier < PercentScale THEN (0 - unit) * 100
                               ELSE Infinity]

\* state.tokens.map(...) of calculateCascadeImpact, from token i on
RECURSIVE ImpactsFrom(_, _, _, _, _)
ImpactsFrom(toks, i, percentageChange, mode, t) ==
    IF i > NumTokens THEN <<>>
    ELSE <<Impact(toks, i, percentageChange, mode, t)>>
            \o ImpactsFrom(calculateDerivedCapital(toks, i, mode, t).toks, i + 1,
                           percentageChange, mode, t)

\* Math.abs(changePercent): Infinity is above every number
AbsChange(impact) ==
    IF impact.changePercent = Infinity
    THEN Pow(PercentScale, NumTokens + 1) * 1000
    ELSE Abs(impact.changePercent)

\* the list left as the map built it
SortImpacts_Unsorted(impacts) == impacts

\* impacts.sort((a, b) => Math.abs(b.changePercent) - Math.abs(a.changePercent)):
\* largest first, equal elements in their order
SortImpacts(impacts) ==
    LET before(i, j) == \/ AbsChange(impacts[i]) > AbsChange(impacts[j])
                        \/ AbsChange(impacts[i]) = AbsChange(impacts[j]) /\ i < j
        rank(i) == 1 + Cardinality({j \in 1..Len(impacts) : before(j, i)})
    IN [n \in 1..Len(impacts) |-> impacts[CHOOSE i \in 1..Len(impacts) : rank(i) = n]]

\* calculateCascadeImpact(percentageChange).impacts under the given
\* capitalCalculationMode
calculateCascadeImpact(toks, percentageChange, mode, t) ==
    SortImpacts(ImpactsFrom(TokensAfterBreakdown(toks, 1, mode, t), 1,
                            percentageChange, mode, t))

\* values typed into the total-supply input of a token card
SupplyInputs == {0, 300, 400, 2000}

\* the 'change' listener of the total-supply input: an empty or non-positive
\* value is ignored, any other goes to Token.updateTotalSupply
UpdateTotalSupply(id, newSupply) ==
    /\ budget > 0
    /\ IF newSupply > 0
       THEN LET r == updateTotalSupply(tokens, id, newSupply, now)
            IN /\ tokens' = r.toks
               /\ last' = Report("updateTotalSupply",
                                 IF r.ok THEN "ok" ELSE "rejected", id)
       ELSE /\ tokens' = tokens
            /\ last' = Report("updateTotalSupply", "ignored", id)
    /\ budget' = budget - 1
    /\ UNCHANGED <<plsPrice, applySlippage, now>>
    /\ UNCHANGED TradeVars

\* short runs of re-pairing, buying, repricing and supply edits on funded
\* pools, for the capital analysis
InitCapital ==
    /\ InitSettings
    /\ tokens = FundAll(ConstructedTokens)
    /\ budget = PoolOps

NextCapital ==
    \/ \E id \in TokenIds, pt \in {"USD", "WPLS", "TOKEN"}, p \in TokenIds \cup {NoToken} :
          SelectPair(id, pt, p)
    \/ \E id \in TokenIds : ExecuteBuy(id, 100)
    \/ \E price \in PlsPrices : SetPlsPrice(price)
    \/ \E id \in TokenIds, supply \in SupplyInputs : UpdateTotalSupply(id, supply)

SpecCapital == InitCapital /\ [][NextCapital]_vars

-----------------------------------------------------------------------------
(* Properties of liquidity and of single swaps *)

Funded(tok) == tok.tokenReserve > 0 /\ tok.pairReserve > 0

\* C1: every successful executeBuy leaves the pool's k (tokenReserve x
\* pairReserve) greater than or equal to its value before the swap, whether
\* state.applySlippage is on or off
C1_KNeverDecreases ==
    [][\A id \in TokenIds :
          (last'.op = "executeBuy" /\ last'.result = "ok" /\ last'.tok = id)
             => tokens'[id].tokenReserve * tokens'[id].pairReserve
                   >= tokens[id].tokenReserve * tokens[id].pairReserve]_vars

\* C2: an addLiquidity call that returned true in a state where every token's
\* available supply is >= 0 leaves every token's available supply >= 0
C2_AvailableSupplyNonNegative ==
    [][(/\ last'.op = "addLiquidity"
        /\ last'.result = "ok"
        /\ \A id \in TokenIds : getAvailableSupply(tokens, id) >= 0)
          => \A id \in TokenIds : getAvailableSupply(tokens', id) >= 0]_vars

\* C11: in every reachable state the stored k of every token equals
\* tokenReserve x pairReserve
C11_KIsProduct ==
    \A id \in TokenIds : tokens[id].k = tokens[id].tokenReserve * tokens[id].pairReserve

\* a routed buy has just rewritten the reserves of two pools
C11_Witness ==
    /\ last.op = "processBuy"
    /\ last.tok = 2
    /\ tokens[1].k # TradeTokens[1].k
    /\ tokens[2].k # TradeTokens[2].k
    /\ C11_KIsProduct

-----------------------------------------------------------------------------
(* Properties of processBuy and its chain *)

\* the fields of a pool that a rejected operation must leave alone
Pool(tok) == <<tok.tokenReserve, tok.pairReserve, tok.k, tok.lpTotalSupply>>

\* the pool of a hop can still pay out the amount the route promised
HopPayable(toks, hop) ==
    Funded(toks[hop.token]) /\ hop.amountOut < toks[hop.token].tokenReserve

\* C3: when a confirmed route holds a hop that the pools can no longer pay
\* out, executeRoute fails and no pool changes
C3_StaleRouteRejected ==
    [][\A i \in TaskIds :
          (/\ tasks[i].pc = "confirm"
           /\ tasks'[i].pc # "confirm"
           /\ \E n \in 1..Len(tasks[i].route.hops) :
                 ~HopPayable(tokens, tasks[i].route.hops[n]))
             => /\ last'.result = "fail"
                /\ \A id \in TokenIds : Pool(tokens'[id]) = Pool(tokens[id])]_vars

\* C4: a step that reports failure leaves tokenReserve, pairReserve, k and
\* lpTotalSupply of every pool as they were
C4_FailureChangesNothing ==
    [][last'.result = "fail"
          => \A id \in TokenIds : Pool(tokens'[id]) = Pool(tokens[id])]_vars

\* C5: no wallet has two chained steps waiting for their timers
C5_OnePendingStepPerWallet ==
    \A i, j \in TaskIds :
       (i # j /\ tasks[i].pc = "delay" /\ tasks[j].pc = "delay")
          => tasks[i].walletId # tasks[j].walletId

\* C6: a chained step whose timer fires while trading is paused changes no
\* token (no swap, no balance change) and no counter
C6_PausedStepDoesNothing ==
    [][(last'.op = "chainStep" /\ isPaused)
          => /\ tokens' = tokens
             /\ transactionCount' = transactionCount
             /\ totalProcessed' = totalProcessed
             /\ totalGasUsed' = totalGasUsed]_vars

\* a chained step on a funded pool has just been turned away by the pause,
\* which was switched on after the step was scheduled
C6_Witness ==
    /\ last.op = "chainStep"
    /\ last.result = "fail"
    /\ isPaused
    /\ Funded(tokens[last.tok])
    /\ transactionCount > 0

\* C7: every pool has both reserves zero or both strictly positive
C7_ReservesBothOrNeither ==
    \A id \in TokenIds :
       \/ tokens[id].tokenReserve = 0 /\ tokens[id].pairReserve = 0
       \/ tokens[id].tokenReserve > 0 /\ tokens[id].pairReserve > 0

\* C8: after a step that changed a pool's reserves, a price read of that
\* token returns what it would return with the token's cache cleared
C8_ReadAfterMutationIsFresh ==
    [][\A id \in TokenIds :
          (\/ tokens'[id].tokenReserve # tokens[id].tokenReserve
           \/ tokens'[id].pairReserve # tokens[id].pairReserve)
             => PriceAt(tokens', id, {}, now', plsPrice').price
                  = PriceAt([tokens' EXCEPT ![id].priceLastUpdated = 0],
                            id, {}, now', plsPrice').price]_vars

-----------------------------------------------------------------------------
(* Properties of price resolution *)

\* a and b are paired with each other and both pools are funded
Cycle(a, b) ==
    /\ a # b
    /\ tokens[a].pairType = "TOKEN" /\ tokens[a].pairedTokenId = b
    /\ tokens[b].pairType = "TOKEN" /\ tokens[b].pairedTokenId = a
    /\ Funded(tokens[a]) /\ Funded(tokens[b])

\* C9 as stated: on a cycle a <-> b with both pools funded a price read
\* returns 0 for either token, and updateAllTokenPrices stays within its
\* pass bound
C9_CycleAlwaysZero ==
    \A a, b \in TokenIds :
       Cycle(a, b) =>
          /\ calculateTokenPriceUSD(tokens, a, {}, now).price = 0
          /\ updateAllTokenPrices(tokens, now).iteration <= MaxIterations

\* C9: on a cycle a <-> b with both pools funded, a price read returns 0 for
\* either token once neither holds a fresh non-zero cached price, and
\* updateAllTokenPrices stays within its pass bound
C9_CycleResolvesToZero ==
    \A a, b \in TokenIds :
       Cycle(a, b) =>
          /\ (~CacheFresh(tokens[a], now) /\ ~CacheFresh(tokens[b], now))
                => calculateTokenPriceUSD(tokens, a, {}, now).price = 0
          /\ updateAllTokenPrices(tokens, now).iteration <= MaxIterations

\* updateAllTokenPrices has just run on a cycle and has written 0 to both caches
C9_Witness ==
    /\ last.op = "updateAllTokenPrices"
    /\ Cycle(1, 2)
    /\ tokens[1].priceLastUpdated = now /\ tokens[1].cachedUSDPrice = 0
    /\ tokens[2].priceLastUpdated = now /\ tokens[2].cachedUSDPrice = 0

\* the token reached from id by n TOKEN pairings, NoToken when the walk
\* has ended at a USD or WPLS pair
RECURSIVE Follow(_, _, _)
Follow(toks, id, n) ==
    IF id = NoToken \/ n = 0 THEN id
    ELSE Follow(toks, IF toks[id].pairType = "TOKEN" THEN toks[id].pairedTokenId
                      ELSE NoToken, n - 1)

Acyclic(toks) == \A id \in TokenIds : Follow(toks, id, NumTokens) = NoToken

\* the price the pairing rules give a funded token from its reserves
ExpectedPrice(toks, id, pls) ==
    LET tok == toks[id]
        ratio == DecDiv(tok.pairReserve * PriceScale, tok.tokenReserve)
    IN IF tok.pairType = "USD" THEN ratio
       ELSE IF tok.pairType = "WPLS" THEN ratio * pls
       ELSE DecDiv(ratio * toks[tok.pairedTokenId].cachedUSDPrice, PriceScale)

\* C10: when updateAllTokenPrices has run on an acyclic pairing graph with
\* every pool funded (and every cached price expired, so that nothing is
\* served from a cache), every cachedUSDPrice is the pair ratio (USD), the
\* ratio x plsPrice (WPLS) or the ratio x the paired token's cachedUSDPrice
\* (TOKEN)
C10_PricesAfterUpdate ==
    [][(/\ last'.op = "updateAllTokenPrices"
        /\ Acyclic(tokens)
        /\ \A id \in TokenIds : Funded(tokens[id]) /\ ~CacheFresh(tokens[id], now))
          => \A id \in TokenIds :
                tokens'[id].cachedUSDPrice = ExpectedPrice(tokens', id, plsPrice')]_vars

-----------------------------------------------------------------------------
(* Properties of the routing functions *)

MaxDepths == 1..(MaxRoutingHops + 1)     \* hop limits handed to findAllPaths

AnchorPaired(tok) == tok.pairType \in {"USD", "WPLS"}

\* the pairing chain of id reaches a USD or WPLS pair within n tokens
ReachesAnchor(toks, id, n) ==
    \E d \in 0..(n - 1) :
       /\ Follow(toks, id, d) # NoToken
       /\ AnchorPaired(toks[Follow(toks, id, d)])

WellFormedPath(toks, path, target, maxDepth) ==
    /\ Len(path) >= 1
    /\ Len(path) <= maxDepth
    /\ AnchorPaired(toks[path[1]])
    /\ path[Len(path)] = target
    /\ \A i \in 2..Len(path) :
          /\ toks[path[i]].pairType = "TOKEN"
          /\ toks[path[i]].pairedTokenId = path[i - 1]
    /\ \A i, j \in 1..Len(path) : i # j => path[i] # path[j]

\* C12: every path of findAllPaths(target, maxDepth) starts at a USD- or
\* WPLS-paired token, ends at target, has each later token paired with the
\* token before it, holds no token twice and has at most maxDepth tokens;
\* the search ends on every pairing graph, cyclic ones included, and finds
\* no path when the pairing chain of target reaches no anchor pair
C12_PathsWellFormed ==
    \A target \in TokenIds, maxDepth \in MaxDepths :
       LET paths == findAllPaths(tokens, target, maxDepth)
       IN /\ \A n \in 1..Len(paths) : WellFormedPath(tokens, paths[n], target, maxDepth)
          /\ ~ReachesAnchor(tokens, target, NumTokens) => paths = <<>>

\* a three-token chain is found, and cut off by a hop limit of two
C12_Witness ==
    /\ findAllPaths(tokens, 3, 3) = <<(<<1, 2, 3>>)>>
    /\ findAllPaths(tokens, 3, 2) = <<>>

\* the search from a token on a pairing cycle ends without a path
C12_CycleWitness ==
    /\ tokens[2].pairType = "TOKEN" /\ tokens[2].pairedTokenId = 3
    /\ tokens[3].pairType = "TOKEN" /\ tokens[3].pairedTokenId = 2
    /\ findAllPaths(tokens, 3, 3) = <<>>

RouteAmounts == {100, 500}      \* USD amounts handed to findBestPath

\* the routes calculatePathOutput simulates on the paths of findAllPaths
SimulatedRoutes(toks, target, amountIn) ==
    LET paths == findAllPaths(toks, target, MaxRoutingHops)
    IN {calculatePathOutput(toks, paths[i], amountIn) : i \in 1..Len(paths)} \ {NoRoute}

PairedWithUsdToken(toks, b, a) ==
    /\ toks[b].pairType = "TOKEN" /\ toks[b].pairedTokenId = a
    /\ toks[a].pairType = "USD"
    /\ Funded(toks[a]) /\ Funded(toks[b])

\* C14 as stated: for a funded token B paired with a funded USD-paired token
\* A, findBestPath(B, amountIn) with amountIn > 0 returns a route with
\* exactly one hop
C14_OneHopRoute ==
    \A b \in TokenIds, a \in TokenIds, amountIn \in RouteAmounts :
       PairedWithUsdToken(tokens, b, a)
          => Len(findBestPath(tokens, b, amountIn).hops) = 1

\* C14 as the code has it: the route has two hops, the first through the
\* pool of A with amountIn, the second through the pool of B with the output
\* of the first, and totalAmountOut is the output of the second
C14_TwoHopRoute ==
    \A b \in TokenIds, a \in TokenIds, amountIn \in RouteAmounts :
       PairedWithUsdToken(tokens, b, a) =>
          LET route == findBestPath(tokens, b, amountIn)
          IN /\ Len(route.hops) = 2
             /\ route.hops[1].token = a /\ route.hops[1].amountIn = amountIn
             /\ route.hops[2].token = b
             /\ route.hops[2].amountIn = route.hops[1].amountOut
             /\ route.totalAmountOut = route.hops[2].amountOut
             /\ route.totalAmountOut > 0

\* token 2 is paired with the USD-paired token 1 and a route is found
C14_Witness ==
    /\ PairedWithUsdToken(tokens, 2, 1)
    /\ findBestPath(tokens, 2, 100) # NoRoute

\* every hop of the route pays out strictly less than its input converted at
\* the pre-trade price tokenReserve / pairReserve of its pool, the input of
\* the first hop being amountIn (amountIn / plsPrice on a WPLS pair) and the
\* input of a later hop the output of the hop before; the outputs being
\* positive, the product of these bounds is the naive spot-rate output of
\* the whole path. Ratios are compared by cross-multiplication.
BelowSpotRate(toks, route, amountIn) ==
    \A i \in 1..Len(route.hops) :
       LET hop == route.hops[i]
           tok == toks[hop.token]
       IN IF i = 1
          THEN IF tok.pairType = "WPLS"
               THEN hop.amountOut * tok.pairReserve * plsPrice < amountIn * tok.tokenReserve
               ELSE hop.amountOut * tok.pairReserve < amountIn * tok.tokenReserve
          ELSE hop.amountOut * tok.pairReserve
                  < route.hops[i - 1].amountOut * tok.tokenReserve

\* C15: every route findBestPath returns for amountIn > 0 over funded pools
\* has a totalAmountOut strictly greater than 0 and strictly less than
\* amountIn converted at the pre-trade price of each pool on the path
C15_OutputBelowSpotRate ==
    \A target \in TokenIds, amountIn \in RouteAmounts :
       LET route == findBestPath(tokens, target, amountIn)
       IN route # NoRoute =>
             /\ route.totalAmountOut > 0
             /\ route.totalAmountOut = route.hops[Len(route.hops)].amountOut
             /\ \A i \in 1..Len(route.hops) : route.hops[i].amountOut > 0
             /\ BelowSpotRate(tokens, route, amountIn)

\* a route over three pools starting at a WPLS pair with plsPrice 2, and a
\* direct route, are returned
C15_Witness ==
    /\ plsPrice = 2
    /\ tokens[1].pairType = "WPLS"
    /\ Len(findBestPath(tokens, 3, 500).hops) = 3
    /\ Len(findBestPath(tokens, 1, 100).hops) = 1

-----------------------------------------------------------------------------
(* Properties of Token.executeBuy and Token.addLiquidity as functions *)

SwapInputs == {-100, 0} \cup BuyAmounts      \* amounts handed to executeBuy

\* the output executeBuy computes for amountIn is at least the token
\* reserve: the constant-product output with the 0.3% fee when
\* state.applySlippage is on, amountIn at the pool price when it is off
\* (a quotient q / d with d > 0 is >= r exactly when q >= r x d)
OutputDrainsPool(tok, amountIn) ==
    IF applySlippage
    THEN tok.tokenReserve * amountIn * FeeNum
            >= tok.tokenReserve * (tok.pairReserve * FeeDen + amountIn * FeeNum)
    ELSE amountIn * tok.tokenReserve >= tok.tokenReserve * tok.pairReserve

\* C17: Token.executeBuy(amountIn) returns success:false if and only if
\* amountIn <= 0, or tokenReserve or pairReserve is zero, or the computed
\* output amount is >= tokenReserve
C17_BuyFailsExactlyWhen ==
    \A id \in TokenIds, amountIn \in SwapInputs :
       ~executeBuy(tokens, id, amountIn, now).success
          <=> \/ amountIn <= 0
              \/ tokens[id].tokenReserve = 0
              \/ tokens[id].pairReserve = 0
              \/ OutputDrainsPool(tokens[id], amountIn)

\* with slippage off, token 1 is funded and token 2 is not: a buy of 100 of
\* token 1 succeeds, a buy of 500 would drain its pool, a buy of nothing and
\* a buy from the empty pool of token 2 fail
C17_Witness ==
    /\ ~applySlippage
    /\ Funded(tokens[1])
    /\ tokens[2].tokenReserve = 0
    /\ executeBuy(tokens, 1, 100, now).success
    /\ ~executeBuy(tokens, 1, 0, now).success
    /\ ~executeBuy(tokens, 2, 100, now).success
    /\ OutputDrainsPool(tokens[1], 500)
    /\ ~executeBuy(tokens, 1, 500, now).success

DepositInputs == {200, 400, 1000, 1001, 1002}    \* amounts handed to addLiquidity

\* pairAmount / tokenAmount differs from pairReserve / tokenReserve by more
\* than 0.1% of pairReserve / tokenReserve: multiplied by tokenAmount x
\* tokenReserve, the difference of the cross products is more than a
\* thousandth of pairReserve x tokenAmount (a whole number d is above
\* q / 1000 exactly when it is above the whole part of q / 1000)
RatioOffByMoreThanTolerance(tok, tokenAmount, pairAmount) ==
    LET provided == pairAmount * tok.tokenReserve
        existing == tok.pairReserve * tokenAmount
    IN \/ provided - existing > existing \div 1000
       \/ existing - provided > existing \div 1000

\* m is the whole part of num / den, and of the square root of n
IsQuotient(m, num, den) == m * den <= num /\ num < (m + 1) * den
IsSqrt(m, n) == m * m <= n /\ n < (m + 1) * (m + 1)

\* C18: on a funded pool addLiquidity(tokenAmount, pairAmount) is rejected
\* whenever pairAmount / tokenAmount differs from pairReserve / tokenReserve
\* by more than 0.1% of the latter; an accepted deposit mints
\* lpTotalSupply x tokenAmount / tokenReserve LP tokens, and the first
\* deposit into an empty pool mints sqrt(tokenAmount x pairAmount)
C18_DepositRatioAndMint ==
    \A id \in TokenIds, tokenAmount \in DepositInputs, pairAmount \in DepositInputs :
       LET tok == tokens[id]
           r == addLiquidity(tokens, id, tokenAmount, pairAmount, now)
           minted == r.toks[id].lpTotalSupply - tok.lpTotalSupply
       IN /\ Funded(tok) /\ RatioOffByMoreThanTolerance(tok, tokenAmount, pairAmount)
               => ~r.ok
          /\ Funded(tok) /\ r.ok
               => IsQuotient(minted, tok.lpTotalSupply * tokenAmount, tok.tokenReserve)
          /\ tok.tokenReserve = 0 /\ tok.pairReserve = 0 /\ r.ok
               => IsSqrt(minted, tokenAmount * pairAmount)

\* the pool of token 1 holds 400 / 1000 after a first deposit that minted
\* 632 LP tokens; a deposit of 400 / 1001, exactly 0.1% off, is accepted and
\* mints 632 more, a deposit of 400 / 1002 is rejected
C18_Witness ==
    /\ tokens[1].tokenReserve = 400 /\ tokens[1].pairReserve = 1000
    /\ tokens[1].lpTotalSupply = 632
    /\ addLiquidity(tokens, 1, 400, 1001, now).ok
    /\ addLiquidity(tokens, 1, 400, 1001, now).toks[1].lpTotalSupply = 1264
    /\ ~addLiquidity(tokens, 1, 400, 1002, now).ok
    /\ addLiquidity(tokens, 2, 400, 1000, now).ok

-----------------------------------------------------------------------------
(* Properties of the capital analysis *)

\* C19: a USD- or WPLS-paired pool contributes its full pair reserve in USD
\* (pairReserve, or pairReserve x plsPrice) to calculateRealCapital and 0 to
\* calculateDerivedCapital, and a TOKEN-paired pool contributes 0 to
\* calculateRealCapital, in the 'market' and in the 'backing' mode
C19_RealAndDerivedCapital ==
    \A id \in TokenIds, mode \in CalculationModes :
       LET token == tokens[id]
           real == calculateRealCapital(tokens, id)
           derived == calculateDerivedCapital(tokens, id, mode, now).amount
       IN /\ token.pairType = "USD" => real = token.pairReserve /\ derived = 0
          /\ token.pairType = "WPLS"
                => real = token.pairReserve * plsPrice /\ derived = 0
          /\ token.pairType = "TOKEN" => real = 0

\* with plsPrice 2, token 1 is a funded WPLS pool, token 3 a funded USD pool
\* and token 2 a funded pool paired with token 1 whose derived capital is
\* not zero in either mode
C19_Witness ==
    /\ plsPrice = 2
    /\ tokens[1].pairType = "WPLS" /\ Funded(tokens[1])
    /\ tokens[3].pairType = "USD" /\ Funded(tokens[3])
    /\ tokens[2].pairType = "TOKEN" /\ tokens[2].pairedTokenId = 1 /\ Funded(tokens[2])
    /\ calculateRealCapital(tokens, 1) = 2 * tokens[1].pairReserve
    /\ \A mode \in CalculationModes :
          calculateDerivedCapital(tokens, 2, mode, now).amount > 0

\* the token table with token id paired with a token that does not exist
Dangling(toks, id) ==
    [toks EXCEPT ![id].pairType = "TOKEN", ![id].pairedTokenId = NumTokens + 1]

\* C20: calculateLiquidityDepth returns 0 for a USD- or WPLS-paired token,
\* 1 + the depth of the paired token for a TOKEN-paired token, and Infinity
\* when the pairing chain holds a cycle or refers to a token that does not
\* exist; it ends on every pairing graph
C20_LiquidityDepth ==
    \A id \in TokenIds :
       LET depth == calculateLiquidityDepth(tokens, id, {})
       IN /\ AnchorPaired(tokens[id]) => depth = 0
          /\ tokens[id].pairType = "TOKEN"
                => LET paired == calculateLiquidityDepth(tokens,
                                                         tokens[id].pairedTokenId, {})
                   IN depth = IF paired = Infinity THEN Infinity ELSE paired + 1
          /\ ~ReachesAnchor(tokens, id, NumTokens) => depth = Infinity
          /\ \A d \in 0..(NumTokens - 1) :
                Follow(tokens, id, d) # NoToken /\ AnchorPaired(tokens[Follow(tokens, id, d)])
                   => depth = d
          /\ \A broken \in TokenIds :
                (\E d \in 0..(NumTokens - 1) : Follow(tokens, id, d) = broken)
                   => calculateLiquidityDepth(Dangling(tokens, broken), id, {})
                         = Infinity

\* token 3 is two pairings away from the USD pair of token 1
C20_Witness ==
    /\ tokens[1].pairType = "USD"
    /\ calculateLiquidityDepth(tokens, 2, {}) = 1
    /\ calculateLiquidityDepth(tokens, 3, {}) = 2
    /\ calculateLiquidityDepth(Dangling(tokens, 1), 3, {}) = Infinity

\* tokens 2 and 3 are paired with each other: no depth
C20_CycleWitness ==
    /\ tokens[2].pairType = "TOKEN" /\ tokens[2].pairedTokenId = 3
    /\ tokens[3].pairType = "TOKEN" /\ tokens[3].pairedTokenId = 2
    /\ calculateLiquidityDepth(tokens, 2, {}) = Infinity

\* C21: calculateCascadeImpact(p) gives every token with a finite depth d a
\* new value of its original value x (1 + p/100)^(d+1), so that the value of
\* a depth-2 pool changes by (1 + p/100)^3 - 1, and the impacts are ordered
\* by absolute change percentage, largest first
C21_CascadeImpact ==
    \A p \in Percentages, mode \in CalculationModes :
       LET impacts == calculateCascadeImpact(tokens, p, mode, now)
           tenths == 10 + p \div 10
       IN /\ Len(impacts) = NumTokens
          /\ \A n \in 1..NumTokens :
                LET impact == impacts[n]
                    d == impact.depth
                IN /\ d = calculateLiquidityDepth(tokens, impact.tokenId, {})
                   /\ d # Infinity =>
                         IsQuotient(impact.newValue,
                                    impact.originalValue * Pow(tenths, d + 1), Pow(10, d + 1))
                   /\ d = 2 /\ impact.originalValue # 0 =>
                         impact.changePercent
                            = (tenths * tenths * tenths - 1000) * 100
                                 * Pow(10, NumTokens - 2)
          /\ \A n \in 1..(NumTokens - 1) :
                AbsChange(impacts[n]) >= AbsChange(impacts[n + 1])

\* token 3 is two pairings away from the USD pair of token 1 and has a
\* value; a rise of 50% moves it by 237.5% and puts it first
C21_Witness ==
    /\ tokens[1].pairType = "USD"
    /\ calculateLiquidityDepth(tokens, 3, {}) = 2
    /\ \A mode \in CalculationModes :
          LET impacts == calculateCascadeImpact(tokens, 50, mode, now)
          IN /\ impacts[1].tokenId = 3
             /\ impacts[1].originalValue > 0
             /\ impacts[1].newValue > 3 * impacts[1].originalValue

-----------------------------------------------------------------------------
(* Properties of the hops of a route *)

\* C23: in every route built by calculatePathOutput each hop's recorded
\* amountIn is the amount its amountOut was computed from, the amountIn of
\* hop i+1 is the amountOut of hop i, and on a WPLS-paired first pool the
\* amountIn of the first hop is the USD input divided by state.plsPrice
C23_HopRecordsItsInput ==
    \A target \in TokenIds, amountIn \in RouteAmounts :
       LET route == findBestPath(tokens, target, amountIn)
       IN route # NoRoute =>
             \A i \in 1..Len(route.hops) :
                LET hop == route.hops[i]
                    tok == tokens[hop.token]
                IN /\ hop.amountOut = simulateSwap(tok, hop.amountIn).amountOut
                   /\ i > 1 => hop.amountIn = route.hops[i - 1].amountOut
                   /\ i = 1 /\ tok.pairType = "WPLS"
                         => hop.amountIn = DecDiv(amountIn, plsPrice)
                   /\ i = 1 /\ tok.pairType = "USD" => hop.amountIn = amountIn

-----------------------------------------------------------------------------
(* Properties of the backing fraction *)

\* C24: in 'backing' mode the pair reserve of a TOKEN-paired pool never
\* exceeds the total supply of its paired token, and the derived capital of
\* the pool is at most the real capital behind the paired token
C24_BackingFractionAtMostOne ==
    \A id \in TokenIds :
       LET token == tokens[id]
           paired == token.pairedTokenId
       IN token.pairType = "TOKEN" /\ paired # NoToken /\ TokenExists(paired)
             => /\ token.pairReserve <= tokens[paired].totalSupply
                /\ tokens[paired].pairType \in {"USD", "WPLS"}
                      => calculateDerivedCapital(tokens, id, "backing", now).amount
                            <= calculateRealCapital(tokens, paired)

-----------------------------------------------------------------------------
(* Properties relating the simulated and the executed swap *)

\* C29: on the same pool and for the same input, the amountOut quoted by
\* simulateSwap is the tokensReceived of an accepted Token.executeBuy,
\* whatever the value of state.applySlippage
C29_QuoteEqualsDelivery ==
    \A id \in TokenIds, amountIn \in BuyAmounts :
       LET buy == executeBuy(tokens, id, amountIn, now)
           quote == simulateSwap(tokens[id], amountIn)
       IN buy.success => quote.ok /\ quote.amountOut = buy.tokensReceived

-----------------------------------------------------------------------------
(* Properties of the intermediate tokens of a route *)

\* C30: executeRoute removes from the tokenReserve of the pool of hop i what
\* it adds to the pairReserve of the pool of hop i+1, so the sum of the two is
\* the same before and after the route is executed
C30_IntermediateTokensConserved ==
    \A target \in TokenIds, amountIn \in RouteAmounts :
       LET route == findBestPath(tokens, target, amountIn)
           after == executeRoute(tokens, route, now).toks
       IN route # NoRoute =>
             \A i \in 1..(Len(route.hops) - 1) :
                LET a == route.hops[i].token
                    b == route.hops[i + 1].token
                IN /\ tokens[a].tokenReserve - after[a].tokenReserve
                         = after[b].pairReserve - tokens[b].pairReserve
                   /\ after[a].tokenReserve + after[b].pairReserve
                         = tokens[a].tokenReserve + tokens[b].pairReserve

\* a route of three hops that moves tokens through both intermediate pools
C30_Witness ==
    \E target \in TokenIds, amountIn \in RouteAmounts :
       LET route == findBestPath(tokens, target, amountIn)
       IN /\ route # NoRoute
          /\ Len(route.hops) = 3
          /\ \A i \in 1..3 : route.hops[i].amountOut > 0
          /\ executeRoute(tokens, route, now).toks[route.hops[2].token].pairReserve
                > tokens[route.hops[2].token].pairReserve

-----------------------------------------------------------------------------
(* Properties of the wallet balances *)

\* amounts asked of a balance: less than it, all of it, more than it
DebitAmounts(balance) == {100, balance, balance + 1, 2 * balance + 100}

C25_BuyDebitsAndCredits ==
    [][transactionCount' > transactionCount =>
          \E w \in 1..Len(wallets) :
             /\ wallets'[w].usdBalance
                   = wallets[w].usdBalance - (totalProcessed' - totalProcessed)
             /\ wallets'[w].tokenBalances[last'.tok] - wallets[w].tokenBalances[last'.tok]
                   = tokens[last'.tok].tokenReserve - tokens'[last'.tok].tokenReserve]_vars

-----------------------------------------------------------------------------
(* Properties of the pause switch *)

\* what the steps of the trading operations report: processBuy and its
\* resumptions, the chained buys, the wallet-based processBuy and
\* processSell, and the swap card
TradingOps == {"processBuy", "confirmRoute", "chainStep", "processNextTransaction",
               "wallet.processBuy", "wallet.processSell", "handleSwapAction"}

Reserves(toks) == [id \in TokenIds |-> <<toks[id].tokenReserve, toks[id].pairReserve>>]

\* C26: while state.isPaused is true no step of a trading operation changes
\* a pool reserve or a wallet balance
C26_PausedMeansNoTrade ==
    [][isPaused /\ last'.op \in TradingOps
          => Reserves(tokens') = Reserves(tokens) /\ wallets' = wallets]_vars

-----------------------------------------------------------------------------
(* Properties of the transaction chain *)

\* C28: every transaction chain started by a processBuy stops with no step
\* left pending, whatever the selectedOppositeToken links. The next step of a
\* chain is decided by the link and the percentage of the token just bought,
\* and the amount passed on at 100% is the amount received, so under links
\* that nobody edits a chain that stops buys every token at most once: the
\* buys counted never exceed NumTokens for each buy started
C28_ChainsStop == transactionCount <= ChainOps * NumTokens

-----------------------------------------------------------------------------
(* Properties of the automated trading *)

====
